---- MODULE Spec2Model ----
(***************************************************************************)
(* A model of twisted.words.service: the Service directory, Participant    *)
(* and Group, and the notifications they push to attached clients.         *)
(*                                                                         *)
(* Python objects are identified by their names (participants and groups   *)
(* are only ever created through the Service, one per name).  Every        *)
(* handler is an operator from a store (the record of all object fields)   *)
(* to a result [s |-> store, err |-> exception]; err = <<>> is a normal    *)
(* return.  An action runs one whole handler and commits its store.        *)
(***************************************************************************)
EXTENDS Integers, Sequences, FiniteSets, TLC

\* ---------------------------------------------------------------- bounds
Names == {"alice", "bob", "carol"}
GroupNames == {"lobby", "dev"}
Messages == {"hi"}
MaxContacts == 2
MaxPending == 1

\* ------------------------------------------------------ program constants
OFFLINE == 0
ONLINE == 1
AWAY == 2
Statuses == {OFFLINE, ONLINE, AWAY}

\* Python's None, for the client field and for a metadata argument.
None == "None"

\* Client handles.  c1 is a remote reference (its message pushes return a
\* Deferred), c2 an in-process client such as the IRC gateway (its pushes
\* return None), e1 an instance of styles.Ephemeral, the placeholder that
\* attached lets a new client replace.  A handle accepts every call of
\* WordsClientInterface; only the Deferred of a message push can fail.
Clients == {"c1", "c2", "e1"}
IsEphemeral(c) == c = "e1"
ReturnsDeferred(c) == c = "c1"

\* Metadata arguments a caller can pass: None, an empty dict, a dict.
EmptyDict == "{}"
Emote == "{style:emote}"
MetadataArgs == {None, EmptyDict, Emote}
\* Python truth value of a metadata argument
Truthy(m) == m \notin {None, EmptyDict}
\* Python's  metadata or {}
OrEmptyDict(m) == IF Truthy(m) THEN m ELSE EmptyDict

VARIABLES
    participants,     \* Service.participants: the names bound so far
    svcGroups,        \* Service.groups: the group names bound so far
    status,           \* Participant.status
    contacts,         \* Participant.contacts, a list
    reverseContacts,  \* Participant.reverseContacts, a list
    groups,           \* Participant.groups, a list
    client,           \* Participant.client, None or a handle
    info,             \* Participant.info
    members,          \* Group.members, a list
    metadata,         \* Group.metadata
    pending,          \* Deferreds returned by message pushes, not yet fired
    out,              \* the pushes made to clients by the last operation
    lastOp            \* the last operation, its arguments and its outcome

vars == <<participants, svcGroups, status, contacts, reverseContacts, groups,
          client, info, members, metadata, pending, out, lastOp>>

\* ---------------------------------------------------------- list helpers
\* x in list
In(x, list) == \E i \in 1..Len(list) : list[i] = x

\* index of the first occurrence of x in list, 0 when absent
RECURSIVE IndexFrom(_, _, _)
IndexFrom(x, list, i) ==
    IF i > Len(list) THEN 0
    ELSE IF list[i] = x THEN i ELSE IndexFrom(x, list, i + 1)

\* list.remove(x) for an x that occurs: drops the first occurrence
ListRemove(list, x) ==
    LET k == IndexFrom(x, list, 1)
    IN  [i \in 1..(Len(list) - 1) |-> IF i < k THEN list[i] ELSE list[i + 1]]

\* ------------------------------------------------------------- the store
Cur == [participants |-> participants, svcGroups |-> svcGroups,
        status |-> status, contacts |-> contacts,
        reverseContacts |-> reverseContacts, groups |-> groups,
        client |-> client, info |-> info, members |-> members,
        metadata |-> metadata,
        pending |-> pending, out |-> <<>>]

Ok(s) == [s |-> s, err |-> <<>>]
Raise(s, e) == [s |-> s, err |-> e]
Failed(r) == r.err # <<>>
\* the value a call returned; None for a call that returns nothing or raises
Returned(r) == IF "value" \in DOMAIN r THEN r.value ELSE None

\* A call of a method of client c, made on behalf of participant p.
PushTo(s, p, c, call, args) ==
    [s EXCEPT !.out = Append(@, [to |-> c, via |-> p, call |-> call,
                                  args |-> args])]

\* self.client.<call>(*args) with no test of self.client: an attribute
\* lookup on None raises AttributeError.
ClientCall(s, p, call, args) ==
    IF s.client[p] = None
    THEN Raise(s, <<"AttributeError", call>>)
    ELSE Ok(PushTo(s, p, s.client[p], call, args))

\* ---------------------------------------------------------------- Service
\* Participant.__init__: the fields of a new participant
Participant__init__ ==
    [status |-> OFFLINE, contacts |-> <<>>, reverseContacts |-> <<>>,
     groups |-> <<>>, client |-> None, info |-> ""]

\* Group.__init__: the fields of a new group
Group__init__(name) ==
    [members |-> <<>>,
     metadata |-> [topic |-> "Welcome to " \o name \o "!",
                   topic_author |-> "admin"]]

\* a lookup that, like getGroup, binds a name it does not find
getPerspectiveNamed_autoCreate(s, name) ==
    [s |-> [s EXCEPT !.participants = @ \cup {name}], err |-> <<>>,
     value |-> name]

getPerspectiveNamed(s, name) ==
    IF name \in s.participants
    THEN [s |-> s, err |-> <<>>, value |-> name]
    ELSE [s |-> s, err |-> <<"UserNonexistantError", name>>, value |-> None]

\* createParticipant without the has_key test: the name is bound to a new
\* participant every time
createParticipant_overwrite(s, name) ==
    [s |-> [s EXCEPT !.participants = @ \cup {name},
                     !.status[name] = Participant__init__.status,
                     !.contacts[name] = Participant__init__.contacts,
                     !.reverseContacts[name] =
                         Participant__init__.reverseContacts,
                     !.groups[name] = Participant__init__.groups,
                     !.client[name] = Participant__init__.client,
                     !.info[name] = Participant__init__.info],
     err |-> <<>>, value |-> name]

\* returns the new participant, and nothing when the name is already bound
createParticipant(s, name) ==
    IF name \notin s.participants
    THEN [s |-> [s EXCEPT !.participants = @ \cup {name},
                          !.status[name] = Participant__init__.status,
                          !.contacts[name] = Participant__init__.contacts,
                          !.reverseContacts[name] =
                              Participant__init__.reverseContacts,
                          !.groups[name] = Participant__init__.groups,
                          !.client[name] = Participant__init__.client,
                          !.info[name] = Participant__init__.info],
          err |-> <<>>, value |-> name]
    ELSE Ok(s)

\* get-or-create; the store it returns has the group bound
getGroup(s, name) ==
    IF name \notin s.svcGroups
    THEN [s EXCEPT !.svcGroups = @ \cup {name},
                   !.members[name] = Group__init__(name).members,
                   !.metadata[name] = Group__init__(name).metadata]
    ELSE s

\* ------------------------------------------------- Participant: presence
\* Participant.notifyStatusChanged: self is told the status of contact
notifyStatusChanged(s, self, contact) ==
    IF s.client[self] # None
    THEN PushTo(s, self, s.client[self], "notifyStatusChanged",
                <<contact, s.status[contact]>>)
    ELSE s

\* the loop of changeStatus over self.reverseContacts, from index i
RECURSIVE NotifyReverseContacts(_, _, _)
NotifyReverseContacts(s, self, i) ==
    IF i > Len(s.reverseContacts[self]) THEN s
    ELSE NotifyReverseContacts(
             notifyStatusChanged(s, s.reverseContacts[self][i], self),
             self, i + 1)

\* changeStatus that notifies before it assigns
changeStatus_notifyFirst(s, self, newStatus) ==
    [NotifyReverseContacts(s, self, 1) EXCEPT !.status[self] = newStatus]

changeStatus(s, self, newStatus) ==
    NotifyReverseContacts([s EXCEPT !.status[self] = newStatus], self, 1)

\* map(lambda contact: (contact.name, contact.status), self.contacts)
ContactList(s, self) ==
    [i \in 1..Len(s.contacts[self]) |->
        <<s.contacts[self][i], s.status[s.contacts[self][i]]>>]

\* attached without the duplicate-login guard
attached_noGuard(s, self, c) ==
    LET s1 == [s EXCEPT !.client[self] = c]
        s2 == PushTo(s1, self, c, "receiveContactList",
                     <<ContactList(s1, self)>>)
    IN  Ok(changeStatus(s2, self, ONLINE))

\* attached that goes ONLINE before it pushes the contact list
attached_statusFirst(s, self, c) ==
    IF s.client[self] # None /\ ~IsEphemeral(s.client[self])
    THEN Raise(s, <<"Unauthorized", "duplicate login not permitted.">>)
    ELSE LET s1 == [s EXCEPT !.client[self] = c]
             s2 == changeStatus(s1, self, ONLINE)
         IN  Ok(PushTo(s2, self, c, "receiveContactList",
                       <<ContactList(s2, self)>>))

attached(s, self, c) ==
    IF s.client[self] # None /\ ~IsEphemeral(s.client[self])
    THEN Raise(s, <<"Unauthorized", "duplicate login not permitted.">>)
    ELSE LET s1 == [s EXCEPT !.client[self] = c]
             s2 == PushTo(s1, self, c, "receiveContactList",
                          <<ContactList(s1, self)>>)
         IN  Ok(changeStatus(s2, self, ONLINE))

\* ------------------------------------------------- Participant: contacts
\* addContact that skips a contact it already has
addContact_dedupe(s, self, contactName) ==
    LET found == getPerspectiveNamed(s, contactName)
    IN  IF Failed(found) THEN Raise(found.s, found.err)
        ELSE IF In(found.value, found.s.contacts[self]) THEN Ok(found.s)
        ELSE LET contact == found.value
                 s1 == [found.s EXCEPT !.contacts[self] = Append(@, contact)]
                 s2 == [s1 EXCEPT !.reverseContacts[contact] = Append(@, self)]
             IN  Ok(notifyStatusChanged(s2, self, contact))

addContact(s, self, contactName) ==
    LET found == getPerspectiveNamed(s, contactName)
    IN  IF Failed(found) THEN Raise(found.s, found.err)
        ELSE LET contact == found.value
                 s1 == [found.s EXCEPT !.contacts[self] = Append(@, contact)]
                 s2 == [s1 EXCEPT !.reverseContacts[contact] = Append(@, self)]
             IN  Ok(notifyStatusChanged(s2, self, contact))

\* removeContact that forgets the reverse edge
removeContact_oneSided(s, self, contactName) ==
    IF In(contactName, s.contacts[self])
    THEN Ok([s EXCEPT !.contacts[self] = ListRemove(@, contactName)])
    ELSE Raise(s, <<"NotInCollectionError", contactName>>)

removeContact(s, self, contactName) ==
    IF In(contactName, s.contacts[self])
    THEN LET s1 == [s EXCEPT !.contacts[self] = ListRemove(@, contactName)]
         IN  Ok([s1 EXCEPT !.reverseContacts[contactName] = ListRemove(@, self)])
    ELSE Raise(s, <<"NotInCollectionError", contactName>>)

\* ------------------------------------------------------ group membership
memberJoined(s, self, member, group) ==
    ClientCall(s, self, "memberJoined", <<member, group>>)

memberLeft(s, self, member, group) ==
    ClientCall(s, self, "memberLeft", <<member, group>>)

setGroupMetadata(s, self, dict, groupName) ==
    IF s.client[self] # None
    THEN PushTo(s, self, s.client[self], "setGroupMetadata", <<dict, groupName>>)
    ELSE s

\* the loop of addMember over self.members, from index i; it stops at the
\* first member whose memberJoined raises
RECURSIVE TellJoined(_, _, _, _)
TellJoined(s, group, participant, i) ==
    IF i > Len(s.members[group]) THEN Ok(s)
    ELSE LET r == memberJoined(s, s.members[group][i], participant, group)
         IN  IF Failed(r) THEN r ELSE TellJoined(r.s, group, participant, i + 1)

addMember(s, group, participant) ==
    IF In(participant, s.members[group]) THEN Ok(s)
    ELSE LET r == TellJoined(s, group, participant, 1)
         IN  IF Failed(r) THEN r
             ELSE LET s1 == setGroupMetadata(r.s, participant,
                                             r.s.metadata[group], group)
                  IN  Ok([s1 EXCEPT !.members[group] = Append(@, participant)])

\* the loop of removeMember over the remaining members, from index i
RECURSIVE TellLeft(_, _, _, _)
TellLeft(s, group, participant, i) ==
    IF i > Len(s.members[group]) THEN Ok(s)
    ELSE LET r == memberLeft(s, s.members[group][i], participant, group)
         IN  IF Failed(r) THEN r ELSE TellLeft(r.s, group, participant, i + 1)

removeMember(s, group, participant) ==
    IF ~In(participant, s.members[group])
    THEN Raise(s, <<"NotInGroupError", group, participant>>)
    ELSE TellLeft([s EXCEPT !.members[group] = ListRemove(@, participant)],
                  group, participant, 1)

\* joinGroup that records the group before the group has added the member
joinGroup_appendFirst(s, self, name) ==
    LET s1 == getGroup(s, name)
    IN  IF In(name, s1.groups[self]) THEN Ok(s1)
        ELSE addMember([s1 EXCEPT !.groups[self] = Append(@, name)], name, self)

\* joinGroup without the test for an existing membership
joinGroup_noTest(s, self, name) ==
    LET s1 == getGroup(s, name)
        r == addMember(s1, name, self)
    IN  IF Failed(r) THEN r
        ELSE Ok([r.s EXCEPT !.groups[self] = Append(@, name)])

joinGroup(s, self, name) ==
    LET s1 == getGroup(s, name)
    IN  IF In(name, s1.groups[self]) THEN Ok(s1)
        ELSE LET r == addMember(s1, name, self)
             IN  IF Failed(r) THEN r
                 ELSE Ok([r.s EXCEPT !.groups[self] = Append(@, name)])

leaveGroup(s, self, name) ==
    IF In(name, s.groups[self])
    THEN removeMember([s EXCEPT !.groups[self] = ListRemove(@, name)],
                      name, self)
    ELSE Raise(s, <<"NotInGroupError", name>>)

\* the loop of detached over the copy self.groups[:], from index i; only
\* NotInGroupError is caught
RECURSIVE LeaveEach(_, _, _, _)
LeaveEach(s, self, copy, i) ==
    IF i > Len(copy) THEN Ok(s)
    ELSE LET r == leaveGroup(s, self, copy[i])
         IN  IF Failed(r) /\ r.err[1] # "NotInGroupError" THEN r
             ELSE LeaveEach(r.s, self, copy, i + 1)

\* the client argument is not read
detached(s, self, c) ==
    LET s1 == [s EXCEPT !.client[self] = None]
        r == LeaveEach(s1, self, s1.groups[self], 1)
    IN  IF Failed(r) THEN r ELSE Ok(changeStatus(r.s, self, OFFLINE))

\* ------------------------------------------------------------- messages
\* d.addErrback(method, *args) on the Deferred a push to client c returned
AddErrback(s, self, c, method, args) ==
    [s EXCEPT !.pending = Append(@, [to |-> c, via |-> self,
                                      method |-> method, args |-> args,
                                      interleaved |-> FALSE])]

\* receiveDirectMessage that adds the errback to every push, with metadata
\* or without
receiveDirectMessage_retryAlways(s, self, sender, message, meta) ==
    IF s.client[self] # None
    THEN LET c == s.client[self]
             s1 == PushTo(s, self, c, "receiveDirectMessage",
                          IF Truthy(meta) THEN <<sender, message, meta>>
                          ELSE <<sender, message>>)
         IN  IF ReturnsDeferred(c)
             THEN Ok(AddErrback(s1, self, c, "receiveDirectMessage",
                                <<sender, message, None>>))
             ELSE Ok(s1)
    ELSE Raise(s, <<"WrongStatusError", s.status[self], self>>)

\* receiveDirectMessage that reports OFFLINE instead of self.status
receiveDirectMessage_offline(s, self, sender, message, meta) ==
    IF s.client[self] # None
    THEN IF Truthy(meta)
         THEN LET c == s.client[self]
                  s1 == PushTo(s, self, c, "receiveDirectMessage",
                               <<sender, message, meta>>)
              IN  IF ReturnsDeferred(c)
                  THEN Ok(AddErrback(s1, self, c, "receiveDirectMessage",
                                     <<sender, message, None>>))
                  ELSE Ok(s1)
         ELSE Ok(PushTo(s, self, s.client[self], "receiveDirectMessage",
                        <<sender, message>>))
    ELSE Raise(s, <<"WrongStatusError", OFFLINE, self>>)

receiveDirectMessage(s, self, sender, message, meta) ==
    IF s.client[self] # None
    THEN IF Truthy(meta)
         THEN LET c == s.client[self]
                  s1 == PushTo(s, self, c, "receiveDirectMessage",
                               <<sender, message, meta>>)
              IN  IF ReturnsDeferred(c)
                  THEN Ok(AddErrback(s1, self, c, "receiveDirectMessage",
                                     <<sender, message, None>>))
                  ELSE Ok(s1)
         ELSE Ok(PushTo(s, self, s.client[self], "receiveDirectMessage",
                        <<sender, message>>))
    ELSE Raise(s, <<"WrongStatusError", s.status[self], self>>)

\* receiveGroupMessage that, like receiveDirectMessage, raises when no client
\* is attached
receiveGroupMessage_raises(s, self, sender, group, message, meta) ==
    IF sender = self THEN Ok(s)
    ELSE IF s.client[self] = None
    THEN Raise(s, <<"WrongStatusError", s.status[self], self>>)
    ELSE IF Truthy(meta)
    THEN LET c == s.client[self]
             s1 == PushTo(s, self, c, "receiveGroupMessage",
                          <<sender, group, message, meta>>)
         IN  IF ReturnsDeferred(c)
             THEN Ok(AddErrback(s1, self, c, "receiveGroupMessage",
                                <<sender, group, message, None>>))
             ELSE Ok(s1)
    ELSE Ok(PushTo(s, self, s.client[self], "receiveGroupMessage",
                   <<sender, group, message>>))

receiveGroupMessage(s, self, sender, group, message, meta) ==
    IF sender # self /\ s.client[self] # None
    THEN IF Truthy(meta)
         THEN LET c == s.client[self]
                  s1 == PushTo(s, self, c, "receiveGroupMessage",
                               <<sender, group, message, meta>>)
              IN  IF ReturnsDeferred(c)
                  THEN Ok(AddErrback(s1, self, c, "receiveGroupMessage",
                                     <<sender, group, message, None>>))
                  ELSE Ok(s1)
         ELSE Ok(PushTo(s, self, s.client[self], "receiveGroupMessage",
                        <<sender, group, message>>))
    ELSE Ok(s)

\* the loop of Group.sendMessage over self.members, from index i
RECURSIVE sendMessageFrom(_, _, _, _, _, _)
sendMessageFrom(s, group, sender, message, meta, i) ==
    IF i > Len(s.members[group]) THEN Ok(s)
    ELSE LET r == receiveGroupMessage(s, s.members[group][i], sender, group,
                                      message, meta)
         IN  IF Failed(r) THEN r
             ELSE sendMessageFrom(r.s, group, sender, message, meta, i + 1)

sendMessage(s, group, sender, message, meta) ==
    sendMessageFrom(s, group, sender, message, meta, 1)

directMessage(s, self, recipientName, message, meta) ==
    LET found == getPerspectiveNamed(s, recipientName)
    IN  IF Failed(found) THEN Raise(found.s, found.err)
        ELSE receiveDirectMessage(found.s, found.value, self, message,
                                  OrEmptyDict(meta))

\* groupMessage that looks the group up in the directory instead of scanning
\* self.groups
groupMessage_anyone(s, self, groupName, message, meta) ==
    IF groupName \in s.svcGroups
    THEN sendMessage(s, groupName, self, message, OrEmptyDict(meta))
    ELSE Raise(s, <<"NotInGroupError", groupName>>)

groupMessage(s, self, groupName, message, meta) ==
    IF In(groupName, s.groups[self])
    THEN sendMessage(s, groupName, self, message, OrEmptyDict(meta))
    ELSE Raise(s, <<"NotInGroupError", groupName>>)

\* ------------------------------------------------------ group information
\* the loop of getGroupMembers over self.groups, from index i: the member
\* names of each group of that name are pushed with no test of self.client,
\* and the loop goes on after a match
RECURSIVE PushGroupMembers(_, _, _, _)
PushGroupMembers(s, self, groupName, i) ==
    IF i > Len(s.groups[self]) THEN Ok(s)
    ELSE IF s.groups[self][i] = groupName
    THEN LET r == ClientCall(s, self, "receiveGroupMembers",
                             <<s.members[groupName], groupName>>)
         IN  IF Failed(r) THEN r
             ELSE PushGroupMembers(r.s, self, groupName, i + 1)
    ELSE PushGroupMembers(s, self, groupName, i + 1)

\* the raise that follows the loop is not conditional
getGroupMembers(s, self, groupName) ==
    LET r == PushGroupMembers(s, self, groupName, 1)
    IN  IF Failed(r) THEN r ELSE Raise(r.s, <<"NotInGroupError", groupName>>)

\* dict.update
Update(m, d) ==
    [k \in DOMAIN m \cup DOMAIN d |-> IF k \in DOMAIN d THEN d[k] ELSE m[k]]

\* the loop of Group.setMetadata over self.members, from index i
RECURSIVE TellMetadata(_, _, _, _)
TellMetadata(s, group, dict, i) ==
    IF i > Len(s.members[group]) THEN s
    ELSE TellMetadata(setGroupMetadata(s, s.members[group][i], dict, group),
                      group, dict, i + 1)

setMetadata(s, group, dict) ==
    TellMetadata([s EXCEPT !.metadata[group] = Update(@, dict)], group, dict, 1)

\* ------------------------------------------------------------- snapshots
\* styles.Versioned.__getstate__ hands out a copy of the instance's fields:
\* what __getstate__ then writes into it does not reach the instance.
VersionedCopies == TRUE

\* __getstate__ that leaves the groups in the snapshot
Participant__getstate___keepsGroups(s, self) ==
    LET state == [name |-> self, status |-> s.status[self],
                  contacts |-> s.contacts[self],
                  reverseContacts |-> s.reverseContacts[self],
                  groups |-> s.groups[self], client |-> s.client[self],
                  info |-> s.info[self]]
    IN  [s |-> IF VersionedCopies THEN s
               ELSE [s EXCEPT !.client[self] = None, !.status[self] = OFFLINE],
         value |-> [state EXCEPT !.client = None, !.status = OFFLINE]]

Participant__getstate__(s, self) ==
    LET state == [name |-> self, status |-> s.status[self],
                  contacts |-> s.contacts[self],
                  reverseContacts |-> s.reverseContacts[self],
                  groups |-> s.groups[self], client |-> s.client[self],
                  info |-> s.info[self]]
    IN  [s |-> IF VersionedCopies THEN s
               ELSE [s EXCEPT !.client[self] = None, !.status[self] = OFFLINE,
                              !.groups[self] = <<>>],
         value |-> [state EXCEPT !.client = None, !.status = OFFLINE,
                                 !.groups = <<>>]]

Group__getstate__(s, group) ==
    LET state == [name |-> group, members |-> s.members[group],
                  metadata |-> s.metadata[group]]
    IN  [s |-> IF VersionedCopies THEN s
               ELSE [s EXCEPT !.members[group] = <<>>],
         value |-> [state EXCEPT !.members = <<>>]]

\* pickling the service: the state of each participant in todo, then of each
\* group in todo, is added to the snapshot
RECURSIVE PickleEach(_, _, _, _)
PickleEach(s, ps, gs, snap) ==
    IF ps # {}
    THEN LET p == CHOOSE x \in ps : TRUE
             r == Participant__getstate__(s, p)
         IN  PickleEach(r.s, ps \ {p}, gs,
                        [snap EXCEPT !.participants = @ \cup {r.value}])
    ELSE IF gs # {}
    THEN LET g == CHOOSE x \in gs : TRUE
             r == Group__getstate__(s, g)
         IN  PickleEach(r.s, ps, gs \ {g},
                        [snap EXCEPT !.groups = @ \cup {r.value}])
    ELSE [s |-> s, err |-> <<>>, value |-> snap]

Service__getstate__(s) ==
    PickleEach(s, s.participants, s.svcGroups,
               [participants |-> {}, groups |-> {}])

\* The number of positional parameters, self excluded, of the methods that
\* are registered as errbacks.
Arity(method) ==
    CASE method = "receiveDirectMessage" -> 3
      [] method = "receiveGroupMessage" -> 4

\* A Deferred calls its errback as errback(failure, *args): the bound method
\* is applied to the failure followed by the arguments given to addErrback.
\* A call with the wrong number of arguments raises TypeError before the
\* body of the method runs.
CallErrback(s, d) ==
    LET a == <<"Failure">> \o d.args
    IN  IF Len(a) # Arity(d.method) THEN Raise(s, <<"TypeError", d.method>>)
        ELSE IF d.method = "receiveDirectMessage"
             THEN receiveDirectMessage(s, d.via, a[1], a[2], a[3])
             ELSE receiveGroupMessage(s, d.via, a[1], a[2], a[3], a[4])

\* pending without its i-th Deferred
Fired(s, i) ==
    [s EXCEPT !.pending = [k \in 1..(Len(@) - 1) |->
                              IF k < i THEN @[k] ELSE @[k + 1]]]

\* ------------------------------------------------------------ the actions
IsMessagePush(o) ==
    o.call \in {"receiveDirectMessage", "receiveGroupMessage"}

\* History kept with each pending Deferred: whether, since the push that
\* returned it, another message was pushed to the same participant's client.
\* n is the number of Deferreds that were pending before the operation.
MarkInterleaved(s, n) ==
    [s EXCEPT !.pending =
        [k \in 1..Len(@) |->
            IF /\ k <= n
               /\ \E j \in 1..Len(s.out) :
                     /\ IsMessagePush(s.out[j])
                     /\ s.out[j].via = @[k].via
                     /\ s.out[j].to = @[k].to
            THEN [@[k] EXCEPT !.interleaved = TRUE]
            ELSE @[k]]]

Commit(r, op, who, args) ==
    LET s == MarkInterleaved(r.s, IF op \in {"callback", "errback"}
                                  THEN Len(pending) - 1 ELSE Len(pending))
    IN  /\ Len(s.pending) <= MaxPending
        /\ participants' = s.participants
        /\ svcGroups' = s.svcGroups
        /\ status' = s.status
        /\ contacts' = s.contacts
        /\ reverseContacts' = s.reverseContacts
        /\ groups' = s.groups
        /\ client' = s.client
        /\ info' = s.info
        /\ members' = s.members
        /\ metadata' = s.metadata
        /\ pending' = s.pending
        /\ out' = s.out
        /\ lastOp' = [op |-> op, who |-> who, args |-> args, err |-> r.err,
                      ret |-> Returned(r)]

Init ==
    /\ participants = {}
    /\ svcGroups = {}
    /\ status = [n \in Names |-> OFFLINE]
    /\ contacts = [n \in Names |-> <<>>]
    /\ reverseContacts = [n \in Names |-> <<>>]
    /\ groups = [n \in Names |-> <<>>]
    /\ client = [n \in Names |-> None]
    /\ info = [n \in Names |-> ""]
    /\ members = [g \in GroupNames |-> <<>>]
    /\ metadata = [g \in GroupNames |-> None]
    /\ pending = <<>>
    /\ out = <<>>
    /\ lastOp = [op |-> "init", who |-> None, args |-> <<>>, err |-> <<>>,
                 ret |-> None]

RECURSIVE SumLen(_, _)
SumLen(f, S) ==
    IF S = {} THEN 0
    ELSE LET x == CHOOSE y \in S : TRUE IN Len(f[x]) + SumLen(f, S \ {x})

\* One action per operation.  N, G and C are the names, group names and
\* client handles the callers of a specification use.
CreateParticipant(N) ==
    \E name \in N :
        LET r == createParticipant(Cur, name)
        IN  Commit(r, "createParticipant", None, <<name>>)

Attached(C) ==
    \E self \in participants, c \in C :
        Commit(attached(Cur, self, c), "attached", self, <<c>>)

Detached(C) ==
    \E self \in participants, c \in C :
        Commit(detached(Cur, self, c), "detached", self, <<c>>)

ChangeStatus ==
    \E self \in participants, newStatus \in Statuses :
        Commit(Ok(changeStatus(Cur, self, newStatus)), "changeStatus", self,
               <<newStatus>>)

AddContact(N) ==
    \E self \in participants, contactName \in N :
        /\ SumLen(contacts, Names) < MaxContacts
        /\ Commit(addContact(Cur, self, contactName), "addContact", self,
                  <<contactName>>)

RemoveContact(N) ==
    \E self \in participants, contactName \in N :
        Commit(removeContact(Cur, self, contactName), "removeContact", self,
               <<contactName>>)

JoinGroup(G) ==
    \E self \in participants, name \in G :
        Commit(joinGroup(Cur, self, name), "joinGroup", self, <<name>>)

LeaveGroup(G) ==
    \E self \in participants, name \in G :
        Commit(leaveGroup(Cur, self, name), "leaveGroup", self, <<name>>)

DirectMessage(N, M) ==
    \E self \in participants, recipientName \in N, message \in Messages,
       meta \in M :
        Commit(directMessage(Cur, self, recipientName, message, meta),
               "directMessage", self, <<recipientName, message, meta>>)

GroupMessage(G, M) ==
    \E self \in participants, groupName \in G, message \in Messages,
       meta \in M :
        Commit(groupMessage(Cur, self, groupName, message, meta),
               "groupMessage", self, <<groupName, message, meta>>)

GetGroupMembers(G) ==
    \E self \in participants, groupName \in G :
        Commit(getGroupMembers(Cur, self, groupName), "getGroupMembers", self,
               <<groupName>>)

GetGroup(G) ==
    \E name \in G :
        Commit([s |-> getGroup(Cur, name), err |-> <<>>, value |-> name],
               "getGroup", None, <<name>>)

\* the metadata dicts a caller of Group.setMetadata passes
Topics == {[topic |-> "tea", topic_author |-> "bob"]}

SetMetadata(G) ==
    \E group \in G \cap svcGroups, dict \in Topics :
        Commit(Ok(setMetadata(Cur, group, dict)), "setMetadata", None,
               <<group, dict>>)

GetState ==
    Commit(Service__getstate__(Cur), "__getstate__", None, <<>>)

\* The client answered a push: the Deferred fires its callback chain, which
\* holds no callback of this module.
DeferredCallback ==
    \E i \in 1..Len(pending) :
        Commit(Ok(Fired(Cur, i)), "callback", pending[i].via, <<pending[i]>>)

\* The client failed a push: the Deferred runs the errback added to it.
DeferredErrback ==
    \E i \in 1..Len(pending) :
        Commit(CallErrback(Fired(Cur, i), pending[i]), "errback",
               pending[i].via, <<pending[i]>>)

Next ==
    \/ CreateParticipant(Names)
    \/ Attached(Clients)
    \/ Detached(Clients)
    \/ ChangeStatus
    \/ AddContact(Names)
    \/ RemoveContact(Names)
    \/ JoinGroup(GroupNames)
    \/ LeaveGroup(GroupNames)
    \/ DirectMessage(Names, MetadataArgs)
    \/ GroupMessage(GroupNames, MetadataArgs)
    \/ GetGroupMembers(GroupNames)
    \/ GetGroup(GroupNames)
    \/ SetMetadata(GroupNames)
    \/ GetState
    \/ DeferredCallback
    \/ DeferredErrback

Spec == Init /\ [][Next]_vars

\* ------------------------------------------ the specifications checked
\* Each restricts Next to the operations of one part of the service and to
\* some of the callers, so that its reachable states can be enumerated.
Pair == {"alice", "bob"}

\* the contact graph
NextContacts ==
    \/ CreateParticipant(Names)
    \/ AddContact(Names)
    \/ RemoveContact(Names)

SpecContacts == Init /\ [][NextContacts]_vars

\* group membership of attached and unattached participants
NextGroups ==
    \/ CreateParticipant(Names)
    \/ Attached({"c2"})
    \/ Detached({"c2"})
    \/ JoinGroup(GroupNames)
    \/ LeaveGroup(GroupNames)

SpecGroups == Init /\ [][NextGroups]_vars

\* sessions: attaching real and placeholder clients
NextSessions ==
    \/ CreateParticipant(Pair)
    \/ Attached(Clients)
    \/ Detached({"c1"})
    \/ AddContact(Pair)
    \/ JoinGroup({"lobby"})

SpecSessions == Init /\ [][NextSessions]_vars

\* message delivery to remote clients, with the Deferreds of their pushes
NextMessages ==
    \/ CreateParticipant(Pair)
    \/ Attached({"c1"})
    \/ Detached({"c1"})
    \/ JoinGroup({"lobby"})
    \/ DirectMessage(Names, {None, Emote})
    \/ GroupMessage({"lobby"}, {None, Emote})
    \/ DeferredCallback
    \/ DeferredErrback

SpecMessages == Init /\ [][NextMessages]_vars

\* direct messages and status changes of attached and detached participants
NextStatus ==
    \/ CreateParticipant(Pair)
    \/ Attached({"c2"})
    \/ Detached({"c2"})
    \/ ChangeStatus
    \/ DirectMessage(Pair, MetadataArgs)

SpecStatus == Init /\ [][NextStatus]_vars

\* broadcast to a group of three, some of them also in a second group
NextBroadcast ==
    \/ CreateParticipant(Names)
    \/ Attached({"c2"})
    \/ Detached({"c2"})
    \/ JoinGroup(GroupNames)
    \/ GroupMessage({"dev"}, {None, Emote})

SpecBroadcast == Init /\ [][NextBroadcast]_vars

\* lookups of names the directory does not hold
NextLookup ==
    \/ CreateParticipant(Pair)
    \/ Attached({"c2"})
    \/ AddContact(Names)
    \/ RemoveContact(Names)
    \/ DirectMessage(Names, {None, Emote})

SpecLookup == Init /\ [][NextLookup]_vars

\* one group of three: joining, leaving, speaking and listing its members
NextMembers ==
    \/ CreateParticipant(Names)
    \/ Attached({"c2"})
    \/ Detached({"c2"})
    \/ JoinGroup({"lobby"})
    \/ LeaveGroup({"lobby"})
    \/ GroupMessage({"lobby"}, {None})
    \/ GetGroupMembers({"lobby"})

SpecMembers == Init /\ [][NextMembers]_vars

\* the directory: creation, lookup and snapshots of participants and groups
NextDirectory ==
    \/ CreateParticipant(Pair)
    \/ Attached({"c2"})
    \/ AddContact(Pair)
    \/ JoinGroup({"lobby"})
    \/ GetGroup(GroupNames)
    \/ SetMetadata(GroupNames)
    \/ GetState

SpecDirectory == Init /\ [][NextDirectory]_vars

\* presence of three participants, any of which can list alice as a contact
NextPresence ==
    \/ CreateParticipant(Names)
    \/ Attached({"c2"})
    \/ ChangeStatus
    \/ AddContact({"alice"})

SpecPresence == Init /\ [][NextPresence]_vars

\* a client that replaces a placeholder, and the placeholder's detach
NextPlaceholder ==
    \/ CreateParticipant(Pair)
    \/ Attached({"c2", "e1"})
    \/ Detached({"e1"})
    \/ JoinGroup(GroupNames)

SpecPlaceholder == Init /\ [][NextPlaceholder]_vars

\* ------------------------------------------------------------ the claims
\* C1: contact reciprocity.  In every state reached by createParticipant,
\* addContact and removeContact calls, failing ones included, B is in
\* A.contacts exactly when A is in B.reverseContacts.
ContactReciprocity ==
    \A a \in Names, b \in Names :
        In(b, contacts[a]) <=> In(a, reverseContacts[b])

\* a removeContact has failed while a participant is its own contact and two
\* participants are linked
ContactReciprocityWitness ==
    /\ lastOp.op = "removeContact"
    /\ lastOp.err # <<>>
    /\ \E a \in Names, b \in Names : a # b /\ In(b, contacts[a])
    /\ \E a \in Names : In(a, contacts[a])

\* C2: membership symmetry.  After any sequence of completed joinGroup,
\* leaveGroup and detached calls, whether they returned or raised, G is in
\* P.groups exactly when P is in G.members.
MembershipSymmetry ==
    \A p \in Names, g \in GroupNames :
        In(g, groups[p]) <=> In(p, members[g])

\* a detached call has raised out of its loop and memberships remain
MembershipSymmetryWitness ==
    /\ lastOp.op = "detached"
    /\ lastOp.err # <<>>
    /\ groups[lastOp.who] # <<>>
    /\ \E p \in Names \ {lastOp.who} : groups[p] # <<>>

\* C3: single live session.  The client field holds None or one handle, and
\* an attach made while a client that is not a placeholder is attached raises
\* Unauthorized("duplicate login not permitted."), leaves client, status,
\* contacts and groups as they were and pushes nothing.
SingleLiveSession ==
    /\ [](\A p \in Names : client[p] \in Clients \cup {None})
    /\ [][\A self \in Names :
            (/\ lastOp'.op = "attached"
             /\ lastOp'.who = self
             /\ client[self] # None
             /\ ~IsEphemeral(client[self]))
            => (/\ lastOp'.err = <<"Unauthorized", "duplicate login not permitted.">>
                /\ client' = client
                /\ status' = status
                /\ contacts' = contacts
                /\ reverseContacts' = reverseContacts
                /\ groups' = groups
                /\ members' = members
                /\ out' = <<>>)]_vars

\* a second handle was refused for a participant with contacts and groups
SingleLiveSessionWitness ==
    /\ lastOp.op = "attached"
    /\ lastOp.err # <<>>
    /\ client[lastOp.who] \notin {None, lastOp.args[1]}
    /\ contacts[lastOp.who] # <<>>
    /\ groups[lastOp.who] # <<>>

\* C4: detached always leaves the participant OFFLINE, with no client and in
\* no group, whatever the state it is called in.
DetachAlwaysOffline ==
    lastOp.op = "detached" =>
        /\ status[lastOp.who] = OFFLINE
        /\ client[lastOp.who] = None
        /\ groups[lastOp.who] = <<>>

\* C5: joinGroup is idempotent.  When P is already in group g, P.joinGroup(g)
\* returns normally, leaves every groups and members list as it was and
\* pushes nothing.
JoinGroupIdempotent ==
    [][\A p \in Names :
        (/\ lastOp'.op = "joinGroup"
         /\ lastOp'.who = p
         /\ In(lastOp'.args[1], groups[p]))
        => (/\ lastOp'.err = <<>>
            /\ groups' = groups
            /\ members' = members
            /\ out' = <<>>)]_vars

\* an attached member of a group of two has joined it again: a first join
\* would have pushed the group's metadata to its client
JoinGroupIdempotentWitness ==
    /\ lastOp.op = "joinGroup"
    /\ lastOp.err = <<>>
    /\ out = <<>>
    /\ client[lastOp.who] # None
    /\ Len(members[lastOp.args[1]]) >= 2
    /\ In(lastOp.who, members[lastOp.args[1]])

\* the arguments of a push without its last one, the metadata
WithoutMetadata(args) == SubSeq(args, 1, Len(args) - 1)

\* C6: retry law.  When the push of a message with metadata has failed and
\* the recipient still has that client, exactly one push follows to the same
\* client, through the same method, with the same sender (and group) and
\* message and no metadata.
RetryDelivered ==
    (/\ lastOp.op = "errback"
     /\ client[lastOp.who] = lastOp.args[1].to)
    => (/\ Len(out) = 1
        /\ out[1].to = lastOp.args[1].to
        /\ out[1].via = lastOp.who
        /\ out[1].call = lastOp.args[1].method
        /\ out[1].args = WithoutMetadata(lastOp.args[1].args))

\* C7, as stated: when the retry of a send runs, no other message has been
\* pushed to the same recipient's client since the attempt.
NoMessageBetweenAttemptAndRetry ==
    lastOp.op = "errback" => ~lastOp.args[1].interleaved

\* C7, amended: the attempt comes before its retry, and nothing more.  A
\* retry runs only as the errback of a pending Deferred, and a Deferred
\* becomes pending only in the operation that pushed the message with its
\* metadata to that client.
RetryAfterAttempt ==
    [][/\ lastOp'.op = "errback" => In(lastOp'.args[1], pending)
       /\ LET n == IF lastOp'.op \in {"callback", "errback"}
                   THEN Len(pending) - 1 ELSE Len(pending)
          IN  \A k \in (n + 1)..Len(pending') :
                \E j \in 1..Len(out') :
                    /\ out'[j].to = pending'[k].to
                    /\ out'[j].via = pending'[k].via
                    /\ out'[j].call = pending'[k].method
                    /\ Len(out'[j].args) = Len(pending'[k].args)
                    /\ WithoutMetadata(out'[j].args)
                         = WithoutMetadata(pending'[k].args)
                    /\ Truthy(out'[j].args[Len(out'[j].args)])]_vars

\* a retry has run after another message was pushed to the same client
RetryAfterAttemptWitness ==
    /\ lastOp.op = "errback"
    /\ lastOp.args[1].interleaved

\* C8: a direct message to an existing recipient with no client raises
\* WrongStatusError(recipient's status, recipient's name), pushes nothing and
\* changes nothing, whatever that status is.
DirectMessageNoClient ==
    [][\A r \in Names :
        (/\ lastOp'.op = "directMessage"
         /\ lastOp'.args[1] = r
         /\ r \in participants
         /\ client[r] = None)
        => (/\ lastOp'.err = <<"WrongStatusError", status[r], r>>
            /\ out' = <<>>
            /\ UNCHANGED <<participants, svcGroups, status, contacts,
                           reverseContacts, groups, client, info, members,
                           metadata, pending>>)]_vars

\* an attached sender was refused by a recipient that is AWAY and detached
DirectMessageNoClientWitness ==
    /\ lastOp.op = "directMessage"
    /\ lastOp.err = <<"WrongStatusError", AWAY, lastOp.args[1]>>
    /\ client[lastOp.who] # None
    /\ lastOp.who # lastOp.args[1]

\* the pushes of the last operation that deliver message msg of sender S in
\* group g to participant p
GroupPushes(o, p, S, g, msg) ==
    {j \in 1..Len(o) : /\ o[j].via = p
                       /\ o[j].call = "receiveGroupMessage"
                       /\ o[j].args[1] = S
                       /\ o[j].args[2] = g
                       /\ o[j].args[3] = msg}

\* C9: group broadcast.  A groupMessage of member S returns normally; every
\* member other than S that has a client gets exactly one push of the message
\* on that client, S and the members without a client get none, and nothing
\* else is pushed.
GroupBroadcast ==
    [][\A S \in Names :
        (/\ lastOp'.op = "groupMessage"
         /\ lastOp'.who = S
         /\ In(lastOp'.args[1], groups[S]))
        => LET g == lastOp'.args[1]
               msg == lastOp'.args[2]
               receivers == {p \in Names \ {S} :
                               In(p, members[g]) /\ client[p] # None}
           IN  /\ lastOp'.err = <<>>
               /\ \A p \in Names :
                    Cardinality(GroupPushes(out', p, S, g, msg))
                      = IF p \in receivers THEN 1 ELSE 0
               /\ Len(out') = Cardinality(receivers)
               /\ \A j \in 1..Len(out') : out'[j].to = client[out'[j].via]]_vars

\* a broadcast has skipped a member that has no client and reached a member
\* that comes after it in members
GroupBroadcastWitness ==
    /\ lastOp.op = "groupMessage"
    /\ lastOp.err = <<>>
    /\ LET m == members[lastOp.args[1]]
       IN  \E i \in 1..Len(m), j \in 1..Len(m) :
              /\ i < j
              /\ m[i] # lastOp.who
              /\ client[m[i]] = None
              /\ m[j] # lastOp.who
              /\ client[m[j]] # None
    /\ Len(out) = 1

\* C10: lookup miss.  For a name the directory does not hold,
\* getPerspectiveNamed raises UserNonexistantError(name), and directMessage
\* and addContact with that name raise it too, push nothing and leave every
\* contacts and reverseContacts list as it was.
LookupMiss ==
    /\ [](\A name \in Names \ participants :
            getPerspectiveNamed(Cur, name).err
              = <<"UserNonexistantError", name>>)
    /\ [][\A name \in Names \ participants :
            (/\ lastOp'.op \in {"directMessage", "addContact"}
             /\ lastOp'.args[1] = name)
            => (/\ lastOp'.err = <<"UserNonexistantError", name>>
                /\ out' = <<>>
                /\ participants' = participants
                /\ contacts' = contacts
                /\ reverseContacts' = reverseContacts)]_vars

\* an attached participant with a contact sent a message to an unknown name
LookupMissWitness ==
    /\ lastOp.op = "directMessage"
    /\ lastOp.err = <<"UserNonexistantError", lastOp.args[1]>>
    /\ client[lastOp.who] # None
    /\ contacts[lastOp.who] # <<>>

\* C11: groupMessage(g, ...) by a participant that is not currently a member
\* of g, whether it never joined, left or was detached, fails with
\* NotInGroupError(g), and no member of g receives any message.
GroupMessageNonMember ==
    [][\A p \in Names, g \in GroupNames :
        (/\ lastOp'.op = "groupMessage"
         /\ lastOp'.who = p
         /\ lastOp'.args[1] = g
         /\ ~In(p, members[g]))
        => (/\ lastOp'.err = <<"NotInGroupError", g>>
            /\ out' = <<>>
            /\ pending' = pending)]_vars

\* an attached participant outside the group was refused while two members
\* of the group had clients
GroupMessageNonMemberWitness ==
    /\ lastOp.op = "groupMessage"
    /\ lastOp.err = <<"NotInGroupError", lastOp.args[1]>>
    /\ client[lastOp.who] # None
    /\ ~In(lastOp.who, members[lastOp.args[1]])
    /\ Len(members[lastOp.args[1]]) = 2
    /\ \A i \in 1..2 : client[members[lastOp.args[1]][i]] # None

\* the topic of a group that nobody has set
WelcomeTopic == [lobby |-> "Welcome to lobby!", dev |-> "Welcome to dev!"]

\* C12: directory bindings are stable.  No operation unbinds a participant
\* or a group name.  createParticipant on a bound name returns nothing and
\* leaves everything as it was.  getGroup returns the group of that name: a
\* bound one is left as it is, and a name bound by any operation for the
\* first time gets a group with no members, the topic 'Welcome to <name>!'
\* and the topic author 'admin'.
DirectoryBindingsStable ==
    [][/\ participants \subseteq participants'
       /\ svcGroups \subseteq svcGroups'
       /\ \A n \in participants :
             (lastOp'.op = "createParticipant" /\ lastOp'.args[1] = n)
             => (/\ lastOp'.err = <<>>
                 /\ lastOp'.ret = None
                 /\ out' = <<>>
                 /\ UNCHANGED <<participants, svcGroups, status, contacts,
                                reverseContacts, groups, client, info,
                                members, metadata, pending>>)
       /\ \A g \in GroupNames :
             (lastOp'.op = "getGroup" /\ lastOp'.args[1] = g)
             => (/\ lastOp'.err = <<>>
                 /\ lastOp'.ret = g
                 /\ g \in svcGroups'
                 /\ g \in svcGroups => UNCHANGED <<svcGroups, members, metadata>>)
       /\ \A g \in svcGroups' \ svcGroups :
             /\ metadata'[g] = [topic |-> WelcomeTopic[g],
                                topic_author |-> "admin"]
             /\ \/ members'[g] = <<>>
                \/ lastOp'.op = "joinGroup" /\ members'[g] = <<lastOp'.who>>
      ]_vars

\* createParticipant was called for a participant that is attached, has a
\* contact and is in a group whose topic was changed
DirectoryBindingsStableWitness ==
    /\ lastOp.op = "createParticipant"
    /\ lastOp.args[1] \in participants
    /\ lastOp.ret = None
    /\ client[lastOp.args[1]] # None
    /\ contacts[lastOp.args[1]] # <<>>
    /\ \E g \in svcGroups :
          /\ In(lastOp.args[1], members[g])
          /\ metadata[g].topic = "tea"

AttachOrdering ==
    [][\A p \in Names :
        (/\ lastOp'.op = "attached"
         /\ lastOp'.who = p
         /\ (client[p] = None \/ IsEphemeral(client[p])))
        => LET c == lastOp'.args[1]
               told == SelectSeq(reverseContacts[p],
                                 LAMBDA x : client'[x] # None)
           IN  /\ lastOp'.err = <<>>
               /\ client'[p] = c
               /\ status'[p] = ONLINE
               /\ Len(out') = 1 + Len(told)
               /\ out'[1] = [to |-> c, via |-> p,
                             call |-> "receiveContactList",
                             args |-> <<[i \in 1..Len(contacts[p]) |->
                                           <<contacts[p][i],
                                             status[contacts[p][i]]>>]>>]
               /\ \A k \in 1..Len(told) :
                     out'[k + 1] = [to |-> client'[told[k]], via |-> told[k],
                                    call |-> "notifyStatusChanged",
                                    args |-> <<p, ONLINE>>]]_vars

\* a participant that is its own contact and a contact of an attached
\* participant was attached: its contact list still shows it OFFLINE, and
\* two notifications followed the list
AttachOrderingWitness ==
    /\ lastOp.op = "attached"
    /\ lastOp.err = <<>>
    /\ Len(out) = 3
    /\ out[1].call = "receiveContactList"
    /\ out[1].args[1] = <<<<lastOp.who, OFFLINE>>>>
    /\ status[lastOp.who] = ONLINE
    /\ \E k \in 2..3 : out[k].via # lastOp.who

\* the pushes of memberJoined(p, g) or memberLeft(p, g) to the clients of
\* the members listed in ms, in order
ToldMembers(ms, call, p, g) ==
    [i \in 1..Len(ms) |-> [to |-> client[ms[i]], via |-> ms[i],
                           call |-> call, args |-> <<p, g>>]]

\* C15: join ordering.  When P joins a group it is not in, every existing
\* member is sent memberJoined(P, group) in member order, then P is sent the
\* group's metadata, and then P is added to the members; P is not sent
\* memberJoined for its own join.
JoinOrdering ==
    [][\A p \in Names, g \in GroupNames :
        (/\ lastOp'.op = "joinGroup"
         /\ lastOp'.who = p
         /\ lastOp'.args[1] = g
         /\ ~In(g, groups[p]))
        => (/\ out' = ToldMembers(members[g], "memberJoined", p, g)
                      \o (IF client[p] # None
                          THEN <<[to |-> client[p], via |-> p,
                                  call |-> "setGroupMetadata",
                                  args |-> <<metadata'[g], g>>]>>
                          ELSE <<>>)
            /\ members'[g] = Append(members[g], p)
            /\ groups'[p] = Append(groups[p], g))]_vars


\* C16: leave protocol.  leaveGroup(g) by a non-member fails with
\* NotInGroupError(g), changes no state and sends nothing; by a member it
\* removes g from P.groups and P from g.members and then sends
\* memberLeft(P, g) to exactly the remaining members, in order, never to P.
LeaveProtocol ==
    [][\A p \in Names, g \in GroupNames :
        (/\ lastOp'.op = "leaveGroup"
         /\ lastOp'.who = p
         /\ lastOp'.args[1] = g)
        => IF In(g, groups[p])
           THEN /\ groups'[p] = ListRemove(groups[p], g)
                /\ members'[g] = ListRemove(members[g], p)
                /\ ~In(p, members'[g])
                /\ out' = ToldMembers(members'[g], "memberLeft", p, g)
           ELSE /\ lastOp'.err = <<"NotInGroupError", g>>
                /\ out' = <<>>
                /\ UNCHANGED <<participants, svcGroups, status, contacts,
                               reverseContacts, groups, client, info,
                               members, metadata, pending>>]_vars


GetGroupMembersAlwaysRaises ==
    [][\A p \in Names, g \in GroupNames :
        (/\ lastOp'.op = "getGroupMembers"
         /\ lastOp'.who = p
         /\ lastOp'.args[1] = g)
        => (/\ lastOp'.err = <<"NotInGroupError", g>>
            /\ out' = IF In(p, members[g])
                      THEN <<[to |-> client[p], via |-> p,
                              call |-> "receiveGroupMembers",
                              args |-> <<members[g], g>>]>>
                      ELSE <<>>
            /\ UNCHANGED <<svcGroups, groups, members>>)]_vars


\* the number of occurrences of x in list
Count(x, list) == Cardinality({i \in 1..Len(list) : list[i] = x})

\* C19: edge multiplicity.  After any addContact or removeContact call, B
\* occurs in A.contacts as many times as A occurs in B.reverseContacts.
\* addContact of a bound name adds one occurrence on each side whether or
\* not B is a contact already, and a removeContact(B) of a contact removes
\* exactly one occurrence on each side.
EdgeMultiplicity ==
    [][/\ \A a \in Names, b \in Names :
             Count(b, contacts'[a]) = Count(a, reverseContacts'[b])
       /\ \A a \in Names, b \in Names :
             (/\ lastOp'.op = "addContact"
              /\ lastOp'.who = a
              /\ lastOp'.args[1] = b
              /\ b \in participants)
             => (/\ lastOp'.err = <<>>
                 /\ Count(b, contacts'[a]) = Count(b, contacts[a]) + 1
                 /\ Count(a, reverseContacts'[b])
                       = Count(a, reverseContacts[b]) + 1)
       /\ \A a \in Names, b \in Names :
             (/\ lastOp'.op = "removeContact"
              /\ lastOp'.who = a
              /\ lastOp'.args[1] = b
              /\ In(b, contacts[a]))
             => (/\ lastOp'.err = <<>>
                 /\ Count(b, contacts'[a]) = Count(b, contacts[a]) - 1
                 /\ Count(a, reverseContacts'[b])
                       = Count(a, reverseContacts[b]) - 1)
      ]_vars

\* a contact that was added twice is still a contact after a successful
\* removeContact
EdgeMultiplicityWitness ==
    /\ lastOp.op = "removeContact"
    /\ lastOp.err = <<>>
    /\ lastOp.who # lastOp.args[1]
    /\ Count(lastOp.args[1], contacts[lastOp.who]) = 1
    /\ Count(lastOp.who, reverseContacts[lastOp.args[1]]) = 1


\* C20: detached ignores its client argument.  detached(c) clears the
\* client whichever handle is attached: after a client has attached over a
\* placeholder, detached(placeholder) leaves the participant with no client
\* and in none of the groups it had joined.
DetachIgnoresClient ==
    [][\A p \in Names :
        (lastOp'.op = "detached" /\ lastOp'.who = p)
        => (/\ client'[p] = None
            /\ groups'[p] = <<>>
            /\ \A g \in GroupNames : ~In(p, members'[g]))]_vars
====
